---------------------------- MODULE Spec2Model ----------------------------
(***************************************************************************)
(* A model of tools/fioJsonInterpreter.py (class FioJsonFile): the stream  *)
(* splitter run at construction, the path accessor, the metric aggregator, *)
(* the terse renderer and the normal renderer.                             *)
(*                                                                         *)
(* Python str values are TLA+ strings; an io.StringIO is the string        *)
(* written to it so far; an OrderedDict is a sequence of <<key, value>>    *)
(* pairs where the iteration order matters and a function on its keys      *)
(* where only lookups are made; a JSON number is a record                  *)
(* [t |-> "int" | "float", n |-> numerator, d |-> denominator].            *)
(***************************************************************************)
EXTENDS Integers, Sequences, FiniteSets, TLC

VARIABLES
    lines,                  \* f.readlines(): the input file, line by line
    pos,                    \* number of lines the splitter loop has consumed
    jsonStream,             \* _splitJsonNormal: jsonStream
    normalStream,           \* _splitJsonNormal: normalStream
    curStream,              \* _splitJsonNormal: curStream ("json" | "normal")
    containsStatusLines,    \* _splitJsonNormal: containsStatusLines
    pc,                     \* where __init__ is, or how it ended
    data,                   \* self.data, the loaded tree
    result                  \* what the last call on the instance returned or raised

vars == <<lines, pos, jsonStream, normalStream, curStream,
          containsStatusLines, pc, data, result>>

splitVars == <<lines, pos, jsonStream, normalStream, curStream,
               containsStatusLines, pc>>

\* self.fpath, the path the instance was constructed from
fpath == "fio.json"

(***************************************************************************)
(* Python str operations                                                   *)
(***************************************************************************)

\* pat in str
Contains(str, pat) ==
    \E i \in 1..(Len(str) - Len(pat) + 1) : SubSeq(str, i, i + Len(pat) - 1) = pat

\* c in chars, for a one-character string c
CharIn(c, chars) == \E i \in 1..Len(chars) : SubSeq(chars, i, i) = c

\* str.rstrip(chars): drops every trailing character that occurs in chars
RECURSIVE RStrip(_, _)
RStrip(str, chars) ==
    IF Len(str) > 0 /\ CharIn(SubSeq(str, Len(str), Len(str)), chars)
    THEN RStrip(SubSeq(str, 1, Len(str) - 1), chars)
    ELSE str

\* str.split(sep) for a one-character sep
RECURSIVE SplitFrom(_, _, _, _)
SplitFrom(str, sep, start, i) ==
    IF i > Len(str) THEN <<SubSeq(str, start, Len(str))>>
    ELSE IF SubSeq(str, i, i) = sep
         THEN <<SubSeq(str, start, i - 1)>> \o SplitFrom(str, sep, i + 1, i + 1)
         ELSE SplitFrom(str, sep, start, i + 1)

StrSplit(str, sep) == SplitFrom(str, sep, 1, 1)

UpperChars == "ABCDEFGHIJKLMNOPQRSTUVWXYZ"
LowerChars == "abcdefghijklmnopqrstuvwxyz"

LowerChar(c) ==
    IF CharIn(c, UpperChars)
    THEN LET i == CHOOSE k \in 1..Len(UpperChars) : SubSeq(UpperChars, k, k) = c
         IN  SubSeq(LowerChars, i, i)
    ELSE c

\* str.lower()
RECURSIVE StrLower(_)
StrLower(str) ==
    IF Len(str) = 0 THEN ""
    ELSE LowerChar(SubSeq(str, 1, 1)) \o StrLower(SubSeq(str, 2, Len(str)))

\* text.splitlines(keepends=True): the lines a stream's text is made of
RECURSIVE LinesFrom(_, _, _)
LinesFrom(str, start, i) ==
    IF i > Len(str)
    THEN IF start > Len(str) THEN <<>> ELSE <<SubSeq(str, start, Len(str))>>
    ELSE IF SubSeq(str, i, i) = "\n"
         THEN <<SubSeq(str, start, i)>> \o LinesFrom(str, i + 1, i + 1)
         ELSE LinesFrom(str, start, i + 1)

LinesOf(str) == LinesFrom(str, 1, 1)

(***************************************************************************)
(* The stream splitter, _splitJsonNormal, and __init__                     *)
(***************************************************************************)

\* longest input file, in lines
MaxLines == 3

\* lines that end with their newline
FullLines == {"{\n", "}\n", "x\n", "j: (groupid=0)\n", "  }\n"}

\* a last line the file does not terminate
OpenLines == {"}", "y: (groupid=1)"}

SeqsUpTo(S, n) == UNION {[1..k -> S] : k \in 0..n}

\* what readlines() can return: only the last line may lack its newline
InputFiles ==
    SeqsUpTo(FullLines, MaxLines)
    \cup {h \o <<l>> : h \in SeqsUpTo(FullLines, MaxLines - 1), l \in OpenLines}

\* reStatusLine.search(line)
reStatusLine(line) == Contains(line, ": (groupid=")

\* The loop body with one branch of the original changed: the status test
\* is made whatever the current stream is.
SplitStepAnyStream(st, line) ==
    IF line = "{\n"
    THEN [st EXCEPT !.cur = "json", !.json = st.json \o line]
    ELSE IF line = "}\n"
    THEN [st EXCEPT !.json = st.json \o line, !.cur = "normal"]
    ELSE IF reStatusLine(line)
    THEN IF st.cur = "json"
         THEN [st EXCEPT !.status = TRUE, !.json = st.json \o line]
         ELSE [st EXCEPT !.status = TRUE, !.normal = st.normal \o line]
    ELSE IF st.cur = "json"
         THEN [st EXCEPT !.json = st.json \o line]
         ELSE [st EXCEPT !.normal = st.normal \o line]

\* The loop body with the closing brace line switching streams unwritten.
SplitStepDropClose(st, line) ==
    IF line = "{\n"
    THEN [st EXCEPT !.cur = "json", !.json = st.json \o line]
    ELSE IF line = "}\n"
    THEN [st EXCEPT !.cur = "normal"]
    ELSE IF st.cur = "normal" /\ reStatusLine(line)
    THEN [st EXCEPT !.status = TRUE, !.normal = st.normal \o line]
    ELSE IF st.cur = "json"
         THEN [st EXCEPT !.json = st.json \o line]
         ELSE [st EXCEPT !.normal = st.normal \o line]

\* The loop body taking a closing brace line as one only inside a block.
SplitStepCloseInBlock(st, line) ==
    IF line = "{\n"
    THEN [st EXCEPT !.cur = "json", !.json = st.json \o line]
    ELSE IF line = "}\n" /\ st.cur = "json"
    THEN [st EXCEPT !.json = st.json \o line, !.cur = "normal"]
    ELSE IF st.cur = "normal" /\ reStatusLine(line)
    THEN [st EXCEPT !.status = TRUE, !.normal = st.normal \o line]
    ELSE IF st.cur = "json"
         THEN [st EXCEPT !.json = st.json \o line]
         ELSE [st EXCEPT !.normal = st.normal \o line]

\* One iteration of the loop over f.readlines(), on the loop's locals
\* st = [json, normal, cur, status].
SplitStep(st, line) ==
    IF line = "{\n"
    THEN [st EXCEPT !.cur = "json", !.json = st.json \o line]
    ELSE IF line = "}\n"
    THEN [st EXCEPT !.json = st.json \o line, !.cur = "normal"]
    ELSE IF st.cur = "normal" /\ reStatusLine(line)
    THEN [st EXCEPT !.status = TRUE, !.normal = st.normal \o line]
    ELSE IF st.cur = "json"
         THEN [st EXCEPT !.json = st.json \o line]
         ELSE [st EXCEPT !.normal = st.normal \o line]

\* The emptiness test made on the other stream.
NoJsonDataWrongStream(json, normal) == Len(normal) = 0

\* len(jsonStream.getvalue()) == 0
NoJsonData(json, normal) == Len(json) = 0

NoJsonError == [kind |-> "RuntimeError",
                msg  |-> "File '" \o fpath \o "' contains no json data"]

\* the JSON texts, among those the input lines can make up, that json.load accepts
ValidJsonTexts == {"{\n}\n", "{\n}", "{\n  }\n"}

NoResult == [op |-> "none"]
NoData == [loaded |-> FALSE]

SplitInit ==
    /\ lines \in InputFiles
    /\ pos = 0
    /\ jsonStream = ""
    /\ normalStream = ""
    /\ curStream = "normal"
    /\ containsStatusLines = FALSE
    /\ pc = "split"
    /\ data = NoData
    /\ result = NoResult

\* for line in f.readlines(): one line
SplitLine ==
    /\ pc = "split"
    /\ pos < Len(lines)
    /\ LET st == SplitStep([json |-> jsonStream, normal |-> normalStream,
                            cur |-> curStream, status |-> containsStatusLines],
                           lines[pos + 1])
       IN  /\ jsonStream' = st.json
           /\ normalStream' = st.normal
           /\ curStream' = st.cur
           /\ containsStatusLines' = st.status
    /\ pos' = pos + 1
    /\ UNCHANGED <<lines, pc, data, result>>

\* the loop is over and the JSON buffer is empty: raise
SplitRaise ==
    /\ pc = "split"
    /\ pos = Len(lines)
    /\ NoJsonData(jsonStream, normalStream)
    /\ pc' = "raised"
    /\ result' = [op |-> "__init__", err |-> NoJsonError]
    /\ UNCHANGED <<lines, pos, jsonStream, normalStream, curStream,
                   containsStatusLines, data>>

\* the loop is over and there is JSON text: return the three values
SplitReturn ==
    /\ pc = "split"
    /\ pos = Len(lines)
    /\ ~NoJsonData(jsonStream, normalStream)
    /\ pc' = "json_load"
    /\ UNCHANGED <<lines, pos, jsonStream, normalStream, curStream,
                   containsStatusLines, data, result>>

\* self.data = json.load(jsonStream, ...)
JsonLoad ==
    /\ pc = "json_load"
    /\ IF jsonStream \in ValidJsonTexts
       THEN /\ pc' = "constructed"
            /\ data' = [loaded |-> TRUE]
            /\ UNCHANGED result
       ELSE /\ pc' = "raised"
            /\ result' = [op |-> "__init__",
                          err |-> [kind |-> "JSONDecodeError", msg |-> ""]]
            /\ UNCHANGED data
    /\ UNCHANGED <<lines, pos, jsonStream, normalStream, curStream,
                   containsStatusLines>>

SplitNext == SplitLine \/ SplitRaise \/ SplitReturn \/ JsonLoad

SpecSplit == SplitInit /\ [][SplitNext]_vars


(***************************************************************************)
(* Properties of the stream splitter                                       *)
(***************************************************************************)

\* c is an interleaving of a and b that keeps the order of each
RECURSIVE IsMerge(_, _, _)
IsMerge(a, b, c) ==
    IF c = <<>> THEN a = <<>> /\ b = <<>>
    ELSE \/ a # <<>> /\ Head(a) = Head(c) /\ IsMerge(Tail(a), b, Tail(c))
         \/ b # <<>> /\ Head(b) = Head(c) /\ IsMerge(a, Tail(b), Tail(c))

BareBrace(line) == line = "{\n" \/ line = "}\n"

\* line i lies after a "{" line with no bare brace line in between
InBlock(i) ==
    \E j \in 1..(i - 1) :
        /\ lines[j] = "{\n"
        /\ \A k \in (j + 1)..(i - 1) : ~BareBrace(lines[k])

SplitDone == pc # "split" /\ pos = Len(lines)

\* C1: at every point of the pass the lines consumed so far are an
\* order-preserving interleaving of the lines of the JSON buffer and the lines
\* of the non-JSON buffer: each line went to exactly one buffer, unmodified
\* and in its original relative order, so the merge reproduces the input.
C1_RoundTripSplit ==
    IsMerge(LinesOf(jsonStream), LinesOf(normalStream), SubSeq(lines, 1, pos))

\* C1 witness: a finished pass over a full-length file that filled both buffers
C1_Witness ==
    /\ SplitDone
    /\ Len(lines) = MaxLines
    /\ jsonStream # ""
    /\ normalStream # ""

\* C2: the flag is true exactly when a line with ": (groupid=" was consumed
\* while the non-JSON buffer was the destination; such a line inside a brace
\* block does not set it (the set of qualifying lines only grows, so the flag
\* is never cleared).
C2_LegacyStatusFlag ==
    containsStatusLines =
        (\E i \in 1..pos : reStatusLine(lines[i]) /\ ~InBlock(i))

\* C2 witness: a finished pass that saw a status line inside a brace block and
\* left the flag false
C2_Witness ==
    /\ SplitDone
    /\ ~containsStatusLines
    /\ \E i \in 1..pos : reStatusLine(lines[i]) /\ InBlock(i)

\* C3: once the pass is over, construction has failed with the "contains no
\* json data" error naming the file, with nothing loaded, exactly when the
\* JSON buffer is empty; and the buffer is empty whenever the input has no
\* bare brace line.
C3_NoJsonFailure ==
    SplitDone =>
        /\ (jsonStream = "") =
              (/\ pc = "raised"
               /\ result.err.kind = "RuntimeError"
               /\ result.err.msg = "File '" \o fpath \o "' contains no json data"
               /\ data = NoData)
        /\ (\A i \in 1..Len(lines) : ~BareBrace(lines[i])) => jsonStream = ""

\* C3 witness: a non-empty file without bare brace lines has failed construction
C3_Witness ==
    /\ pc = "raised"
    /\ result.err = NoJsonError
    /\ Len(lines) = MaxLines
    /\ \A i \in 1..Len(lines) : ~BareBrace(lines[i])


\* line i is a bare brace line or lies inside a block
ToJson(i) == BareBrace(lines[i]) \/ InBlock(i)

\* those of the lines 1..n that are bare brace lines or inside a block,
\* joined in order
RECURSIVE JsonText(_)
JsonText(n) ==
    IF n = 0 THEN ""
    ELSE IF ToJson(n) THEN JsonText(n - 1) \o lines[n]
    ELSE JsonText(n - 1)

\* the other lines among 1..n, joined in order
RECURSIVE NormalText(_)
NormalText(n) ==
    IF n = 0 THEN ""
    ELSE IF ~ToJson(n) THEN NormalText(n - 1) \o lines[n]
    ELSE NormalText(n - 1)

\* the most recent bare brace line among the lines consumed is "{"
OpenBlock ==
    \E j \in 1..pos :
        /\ lines[j] = "{\n"
        /\ \A k \in (j + 1)..pos : ~BareBrace(lines[k])

\* C12: at every step of the pass the destination is the JSON buffer iff
\* the most recent bare brace line consumed was "{" (it is the non-JSON buffer
\* before any line); the JSON buffer holds exactly the bare brace lines, a "}"
\* line with no "{" before it included, and the lines that follow a "{" line
\* with no "}" line in between; the non-JSON buffer holds every other line;
\* each in input order.
C12_SplitterRouting ==
    /\ (curStream = "json") = OpenBlock
    /\ (curStream = "normal") = ~OpenBlock
    /\ jsonStream = JsonText(pos)
    /\ normalStream = NormalText(pos)

\* C12 witness: a "}" line that no "{" line preceded went to the JSON buffer,
\* a later "{" line opened a block, and the line after it followed it there
C12_Witness ==
    /\ pos = 3
    /\ lines[1] = "}\n"
    /\ lines[2] = "{\n"
    /\ ~BareBrace(lines[3])
    /\ curStream = "json"
    /\ jsonStream = lines[1] \o lines[2] \o lines[3]


(***************************************************************************)
(* JSON values as json.load(..., object_pairs_hook=OrderedDict) builds     *)
(* them.  Every value carries its Python type in t; an object keeps its    *)
(* items in insertion order.                                               *)
(***************************************************************************)

JInt(k) == [t |-> "int", n |-> k, d |-> 1]
JFloat(num, den) == [t |-> "float", n |-> num, d |-> den]
JStr(str) == [t |-> "str", s |-> str]
JObj(items) == [t |-> "obj", items |-> items]
JList(elems) == [t |-> "list", elems |-> elems]

IsNumber(v) == v.t \in {"int", "float"}

\* a == b on numbers
NumEq(a, b) == a.n * b.d = b.n * a.d

\* a > 0 on a number (denominators are positive)
NumPos(a) == a.n > 0

NumType(a, b) == IF a.t = "int" /\ b.t = "int" THEN "int" ELSE "float"

\* a + b
NumAdd(a, b) ==
    IF a.d = b.d THEN [t |-> NumType(a, b), n |-> a.n + b.n, d |-> a.d]
    ELSE [t |-> NumType(a, b), n |-> a.n * b.d + b.n * a.d, d |-> a.d * b.d]

\* a * b
NumMul(a, b) == [t |-> NumType(a, b), n |-> a.n * b.n, d |-> a.d * b.d]

\* a / b, Python 3 true division, b > 0
NumDiv(a, b) == [t |-> "float", n |-> a.n * b.d, d |-> a.d * b.n]

\* a return value, and a raised exception
Ok(v) == [err |-> "", val |-> v]
Raise(kind, what) == [err |-> kind, val |-> what]

Keys(obj) == [i \in 1..Len(obj.items) |-> obj.items[i][1]]
Values(obj) == [i \in 1..Len(obj.items) |-> obj.items[i][2]]

\* key in obj
Has(obj, key) == \E i \in 1..Len(obj.items) : obj.items[i][1] = key

\* obj[key], for a key that is there
Get(obj, key) ==
    obj.items[CHOOSE i \in 1..Len(obj.items) : obj.items[i][1] = key][2]

\* obj[key] = v: a key that is there keeps its place, a new key goes last
Put(obj, key, v) ==
    IF Has(obj, key)
    THEN [obj EXCEPT !.items =
            [i \in 1..Len(obj.items) |->
                IF obj.items[i][1] = key THEN <<key, v>> ELSE obj.items[i]]]
    ELSE [obj EXCEPT !.items = Append(obj.items, <<key, v>>)]

\* out[n] with its exceptions
Subscript(out, n) ==
    IF out.t = "obj"
    THEN IF Has(out, n) THEN Ok(Get(out, n)) ELSE Raise("KeyError", n)
    ELSE Raise("TypeError", out.t)

(***************************************************************************)
(* The path accessor, _getObjValue                                         *)
(***************************************************************************)

\* for n in nodes: out = out[n]
\* (acc is the outcome so far: out, or the exception raised)
RECURSIVE WalkNodes(_, _)
WalkNodes(acc, nodes) ==
    IF nodes = <<>> \/ acc.err # "" THEN acc
    ELSE WalkNodes(Subscript(acc.val, Head(nodes)), Tail(nodes))

\* The condition as it would read with the parentheses around the "or".
ScaleCondOrFirst(path, out) ==
    (Contains(path, "_ns") \/ Contains(path, "lat")) /\ out.t = "int"

\* "_ns" in path or "lat" in path and isinstance(out, int)
ScaleCond(path, out) ==
    Contains(path, "_ns") \/ (Contains(path, "lat") /\ out.t = "int")

\* out / 1000.0
DivThousand(out) ==
    IF IsNumber(out) THEN Ok(NumDiv(out, JFloat(1000, 1)))
    ELSE Raise("TypeError", out.t)

\* the statements after the loop, on the outcome r of the loop
ScaleOutcome(path, r) ==
    IF r.err # "" THEN r
    ELSE IF ScaleCond(path, r.val) THEN DivThousand(r.val)
    ELSE r

getObjValue(dObj, path) ==
    ScaleOutcome(path, WalkNodes(Ok(dObj), StrSplit(path, "/")))

\* the splitter's variables once __init__ has returned; the file text that
\* loads to a given tree is not part of the state of a constructed instance
Constructed ==
    /\ lines = <<>>
    /\ pos = 0
    /\ jsonStream = ""
    /\ normalStream = ""
    /\ curStream = "normal"
    /\ containsStatusLines = FALSE
    /\ pc = "constructed"
    /\ result = NoResult

\* paths the renderers pass, and two more that carry "lat" with integer values
ValuePaths == {"clat_ns/mean", "slat_ns/min", "lat_ns/stddev", "latency_us/2",
               "latency_target", "bw_mean", "iodepth_level/1", "jobname"}

ValueLeaves == {JInt(306308), JInt(0), JInt(7), JFloat(80755, 10),
                JFloat(1, 100), JStr("job1")}

\* the object that holds leaf at the path nodes
RECURSIVE Nest(_, _)
Nest(nodes, leaf) ==
    IF nodes = <<>> THEN leaf
    ELSE JObj(<< <<Head(nodes), Nest(Tail(nodes), leaf)>> >>)

ValueInit ==
    /\ Constructed
    /\ \E p \in ValuePaths, v \in ValueLeaves : data = Nest(StrSplit(p, "/"), v)

\* self._getObjValue(self.data, path)
GetObjValueCall ==
    /\ pc = "constructed"
    /\ result = NoResult
    /\ \E p \in ValuePaths :
          result' = [op |-> "_getObjValue", path |-> p, ret |-> getObjValue(data, p)]
    /\ UNCHANGED <<splitVars, data>>

ValueNext == GetObjValueCall

SpecValue == ValueInit /\ [][ValueNext]_vars

\* the value a call's path resolves to in the tree, before any scaling
Resolved == WalkNodes(Ok(data), StrSplit(result.path, "/")).val

ValueReturned ==
    /\ result.op = "_getObjValue"
    /\ WalkNodes(Ok(data), StrSplit(result.path, "/")).err = ""
    /\ Resolved.t # "str" \/ ~Contains(result.path, "_ns")

\* ret is raw divided by 1000, as a float
IsThousandth(ret, raw) ==
    /\ ret.t = "float"
    /\ NumEq(NumMul(ret, JInt(1000)), raw)

\* C9: a call that resolves its path returns the value divided by 1000 when
\* the path contains "_ns" (whatever the number's type) or contains "lat" and
\* the value is an int, and returns the value itself otherwise: a "lat"-only
\* path leaves a float as it is, a path with neither substring never scales;
\* "clat_ns/mean" = 306308 gives 306.308.
C9_UnitHeuristic ==
    ValueReturned =>
        LET p == result.path
            raw == Resolved
            ret == result.ret
        IN  /\ ret.err = ""
            /\ Contains(p, "_ns") => IsThousandth(ret.val, raw)
            /\ (~Contains(p, "_ns") /\ Contains(p, "lat")) =>
                  IF raw.t = "int" THEN IsThousandth(ret.val, raw)
                  ELSE ret.val = raw
            /\ (~Contains(p, "_ns") /\ ~Contains(p, "lat")) => ret.val = raw
            /\ (p = "clat_ns/mean" /\ raw = JInt(306308)) =>
                  ret.val = JFloat(306308, 1000)

\* C9 witness: a float under a "_ns" path came back divided by 1000
C9_Witness ==
    /\ ValueReturned
    /\ result.path = "clat_ns/mean"
    /\ Resolved = JFloat(1, 100)
    /\ result.ret.val = JFloat(1, 100000)


(***************************************************************************)
(* The metric aggregator: _getMetricAndIOs, _getMetricResultsList,         *)
(* _avgMetric, _sumMetric and the four properties built on them            *)
(***************************************************************************)

\* Python's None, where a str is expected
None == "<None>"

\* the tuple (value, dirDict['total_ios']), for the outcome v of the first
PairWithIOs(dirDict, v) ==
    IF v.err # "" THEN v
    ELSE IF ~Has(dirDict, "total_ios") THEN Raise("KeyError", "total_ios")
    ELSE Ok(<<v.val, Get(dirDict, "total_ios")>>)

\* m[submetric] if submetric else m, for the outcome m of dirDict[metric]
SubMetric(m, submetric) ==
    IF m.err # "" THEN m
    ELSE IF submetric # None /\ submetric # "" THEN Subscript(m.val, submetric)
    ELSE m

\* dirDict[metric][submetric] or dirDict[metric], paired with dirDict['total_ios']
getMetricAndIOs(dirDict, metric, submetric) ==
    PairWithIOs(dirDict, SubMetric(Subscript(dirDict, metric), submetric))

\* ret.append(r), for the outcome r of _getMetricAndIOs
AppendResult(ret, r) == IF r.err # "" THEN r ELSE Ok(Append(ret, r.val))

\* the four "if <direction> in job and (...)" statements of one job, in
\* order (acc is the outcome so far: ret, or the exception raised)
RECURSIVE JobResults(_, _, _, _, _, _)
JobResults(acc, job, dirs, metric, submetric, dirFilter) ==
    IF dirs = <<>> \/ acc.err # "" THEN acc
    ELSE IF Has(job, Head(dirs)) /\ (dirFilter = None \/ dirFilter = Head(dirs))
    THEN JobResults(
            AppendResult(acc.val,
                         getMetricAndIOs(Get(job, Head(dirs)), metric, submetric)),
            job, Tail(dirs), metric, submetric, dirFilter)
    ELSE JobResults(acc, job, Tail(dirs), metric, submetric, dirFilter)

\* the directions _getMetricResultsList looks at, in its order
MetricDirs == <<"mixed", "read", "write", "trim">>

\* job['jobname'].lower() == 'all clients'
IsAllClients(job) == StrLower(Get(job, "jobname").s) = "all clients"

\* for job in jobs: ...
RECURSIVE JobsResults(_, _, _, _, _)
JobsResults(acc, jobs, metric, submetric, dirFilter) ==
    IF jobs = <<>> \/ acc.err # "" THEN acc
    ELSE IF ~Has(Head(jobs), "jobname") THEN Raise("KeyError", "jobname")
    ELSE IF IsAllClients(Head(jobs))
    THEN JobsResults(acc, Tail(jobs), metric, submetric, dirFilter)
    ELSE JobsResults(JobResults(acc, Head(jobs), MetricDirs, metric, submetric,
                                dirFilter),
                     Tail(jobs), metric, submetric, dirFilter)

\* jobs = [] / self.data['jobs'] / self.data['client_stats']
MetricJobs(d) ==
    IF Has(d, "jobs") THEN Get(d, "jobs").elems
    ELSE IF Has(d, "client_stats") THEN Get(d, "client_stats").elems
    ELSE <<>>

getMetricResultsList(d, metric, submetric, dirFilter) ==
    JobsResults(Ok(<<>>), MetricJobs(d), metric, submetric, dirFilter)

\* the loop of _avgMetric: acc = <<sumAvgs, totalIos>>
RECURSIVE AvgLoop(_, _)
AvgLoop(aResults, acc) ==
    IF aResults = <<>> THEN acc
    ELSE AvgLoop(Tail(aResults),
                 <<NumAdd(acc[1], NumMul(Head(aResults)[1], Head(aResults)[2])),
                   NumAdd(acc[2], Head(aResults)[2])>>)

\* scaledAvgs with the division made whatever totalIos is.
ScaledNoGuard(acc) ==
    IF acc[2].n = 0 THEN Raise("ZeroDivisionError", "float division by zero")
    ELSE Ok(NumDiv(acc[1], acc[2]))

\* scaledAvgs = 0.0; if totalIos > 0: scaledAvgs = sumAvgs / totalIos
Scaled(acc) ==
    IF NumPos(acc[2]) THEN Ok(NumDiv(acc[1], acc[2])) ELSE Ok(JFloat(0, 1))

\* the loop of _avgMetric giving every block the weight 1.
AvgOfUnweighted(r) ==
    IF r.err # "" THEN r
    ELSE Scaled(AvgLoop([i \in 1..Len(r.val) |-> <<r.val[i][1], JInt(1)>>],
                        <<JFloat(0, 1), JInt(0)>>))

\* _avgMetric past its first line, on the outcome r of _getMetricResultsList
AvgOf(r) ==
    IF r.err # "" THEN r
    ELSE Scaled(AvgLoop(r.val, <<JFloat(0, 1), JInt(0)>>))

avgMetric(d, metric, dirFilter) ==
    AvgOf(getMetricResultsList(d, metric, "mean", dirFilter))

\* the loop of _sumMetric
RECURSIVE SumLoop(_, _)
SumLoop(aResults, acc) ==
    IF aResults = <<>> THEN acc
    ELSE SumLoop(Tail(aResults), NumAdd(acc, Head(aResults)[1]))

\* _sumMetric past its first line, on the outcome r of _getMetricResultsList
SumOf(r) == IF r.err # "" THEN r ELSE Ok(SumLoop(r.val, JInt(0)))

\* _sumMetric: its second positional argument lands in the parameter
\* submetric of _getMetricResultsList, whose dirFilter keeps its default
sumMetric(d, metric, dirFilter) ==
    SumOf(getMetricResultsList(d, metric, dirFilter, None))

\* r / k for a call result r
ThenDiv(r, k) == IF r.err # "" THEN r ELSE Ok(NumDiv(r.val, JFloat(k, 1)))

avgClat(d) == ThenDiv(avgMetric(d, "clat_ns", None), 1000000)
avgLat(d) == ThenDiv(avgMetric(d, "lat_ns", None), 1000000)
iops(d) == sumMetric(d, "iops", None)
mibps(d) == ThenDiv(sumMetric(d, "bw_bytes", None), 1048576)


(***************************************************************************)
(* Trees of the shape fio writes (the example in the docstring of objs)    *)
(***************************************************************************)

\* a latency block: min, max, mean, stddev and, for clat_ns, the percentiles
LatBlock(mean, extra) ==
    JObj(<< <<"min", JInt(1)>>, <<"max", JInt(900)>>, <<"mean", JFloat(mean, 1)>>,
            <<"stddev", JFloat(5, 2)>> >> \o extra)

\* the percentile object of labels pcts, in that order; the i-th is worth 1000 * i
Percentiles(pcts) == JObj([i \in 1..Len(pcts) |-> <<pcts[i], JInt(1000 * i)>>])

\* one direction block: b = [ios, iops, mean, pcts]
DirBlock(b) ==
    JObj(<< <<"io_bytes", JInt(4096 * b.ios)>>,
            <<"io_kbytes", JInt(4 * b.ios)>>,
            <<"bw_bytes", JInt(1024 * b.iops)>>,
            <<"bw", JInt(b.iops)>>,
            <<"iops", JFloat(b.iops, 1)>>,
            <<"runtime", JInt(60)>>,
            <<"total_ios", JInt(b.ios)>>,
            <<"short_ios", JInt(0)>>,
            <<"drop_ios", JInt(0)>>,
            <<"slat_ns", LatBlock(3, <<>>)>>,
            <<"clat_ns", LatBlock(b.mean, << <<"percentile", Percentiles(b.pcts)>> >>)>>,
            <<"lat_ns", LatBlock(b.mean + 3, <<>>)>>,
            <<"bw_min", JInt(1)>>,
            <<"bw_max", JInt(9)>>,
            <<"bw_agg", JFloat(100, 1)>>,
            <<"bw_mean", JFloat(11, 2)>>,
            <<"bw_dev", JFloat(1, 2)>>,
            <<"bw_samples", JInt(2)>>,
            <<"iops_min", JInt(1)>>,
            <<"iops_max", JInt(9)>>,
            <<"iops_mean", JFloat(11, 2)>>,
            <<"iops_stddev", JFloat(1, 2)>>,
            <<"iops_samples", JInt(2)>> >>)

\* a histogram object: every key of keys with the same share
Shares(keys, share) == JObj([i \in 1..Len(keys) |-> <<keys[i], share>>])

DepthKeys == <<"1", "2", "4", "8", "16", "32", ">=64">>
BucketKeys == <<"2", "4", "10", "20", "50", "100", "250", "500", "750", "1000">>
MsBucketKeys == BucketKeys \o <<"2000", ">=2000">>

\* one entry of 'jobs': its name and its direction blocks dirs, a sequence
\* of <<direction, block>> pairs in file order
Job(name, dirs) ==
    JObj(<< <<"jobname", JStr(name)>>,
            <<"groupid", JInt(0)>>,
            <<"error", JInt(0)>>,
            <<"eta", JInt(0)>>,
            <<"elapsed", JInt(61)>> >>
         \o [i \in 1..Len(dirs) |-> <<dirs[i][1], DirBlock(dirs[i][2])>>]
         \o << <<"usr_cpu", JFloat(12, 1)>>,
               <<"sys_cpu", JFloat(30, 1)>>,
               <<"ctx", JInt(13)>>,
               <<"majf", JInt(0)>>,
               <<"minf", JInt(35)>>,
               <<"iodepth_level", Shares(DepthKeys, JFloat(1, 10))>>,
               <<"latency_ns", Shares(BucketKeys, JFloat(0, 1))>>,
               <<"latency_us", Shares(BucketKeys, JFloat(1, 100))>>,
               <<"latency_ms", Shares(MsBucketKeys, JFloat(0, 1))>>,
               <<"latency_depth", JInt(8)>>,
               <<"latency_target", JInt(0)>>,
               <<"latency_percentile", JFloat(100, 1)>>,
               <<"latency_window", JInt(0)>> >>)

\* one entry of 'disk_util'
Disk(name) ==
    JObj(<< <<"name", JStr(name)>>,
            <<"read_ios", JInt(123)>>,
            <<"write_ios", JInt(15)>>,
            <<"read_merges", JInt(0)>>,
            <<"write_merges", JInt(0)>>,
            <<"read_ticks", JInt(11)>>,
            <<"write_ticks", JInt(45)>>,
            <<"in_queue", JInt(45)>>,
            <<"util", JFloat(99, 1)>> >>)

\* the top-level object: the jobs under key jobsKey, then the disks
Tree(jobsKey, jobs, disks) ==
    JObj(<< <<"fio version", JStr("fio-3.5")>>,
            <<"timestamp", JInt(1526325132)>>,
            <<"time", JStr("Mon May 14 14:12:12 2018")>>,
            <<jobsKey, JList(jobs)>>,
            <<"disk_util", JList(disks)>> >>)


(***************************************************************************)
(* The aggregator on a constructed instance                                *)
(***************************************************************************)

\* most jobs in a file
MaxJobs == 2

BlockA == [ios |-> 10, iops |-> 1000, mean |-> 100, pcts |-> <<>>]
BlockB == [ios |-> 30, iops |-> 2000, mean |-> 200, pcts |-> <<>>]
\* a direction that did no IO and still reports a rate
BlockZ == [ios |-> 0, iops |-> 500, mean |-> 50, pcts |-> <<>>]

MetricShapes ==
    { <<>>,
      << <<"read", BlockA>> >>,
      << <<"read", BlockA>>, <<"write", BlockB>> >>,
      << <<"mixed", BlockB>> >>,
      << <<"write", BlockZ>> >>,
      << <<"read", BlockB>>, <<"trim", BlockA>> >> }

\* the aggregate entry of client/server mode, as fio names it and in lower case
MetricJobSet ==
    {Job("job1", sh) : sh \in MetricShapes}
    \cup {Job("All clients", << <<"read", BlockA>> >>),
          Job("all clients", << <<"read", BlockA>>, <<"write", BlockB>> >>)}

\* the key the job list is filed under; the last is neither of the two
\* the aggregator looks for
JobsKeys == {"jobs", "client_stats", "job list"}

DirFilters == {None, "mixed", "read", "write", "trim"}

MetricInit ==
    /\ Constructed
    /\ \E k \in JobsKeys, js \in SeqsUpTo(MetricJobSet, MaxJobs) :
          data = Tree(k, js, <<>>)

\* the instance is constructed and no call is in progress
Idle == pc = "constructed" /\ result = NoResult

\* the caller has taken what the last call returned or raised
TakeResult ==
    /\ pc = "constructed"
    /\ result # NoResult
    /\ result' = NoResult
    /\ UNCHANGED <<splitVars, data>>

\* self._avgMetric(metric, dirFilter)
AvgMetricCall ==
    /\ Idle
    /\ \E m \in {"clat_ns", "lat_ns"}, f \in DirFilters :
          result' = [op |-> "_avgMetric", metric |-> m, dirFilter |-> f,
                     ret |-> avgMetric(data, m, f)]
    /\ UNCHANGED <<splitVars, data>>

\* self._sumMetric(metric, dirFilter)
SumMetricCall ==
    /\ Idle
    /\ \E m \in {"iops", "bw_bytes"}, f \in DirFilters :
          result' = [op |-> "_sumMetric", metric |-> m, dirFilter |-> f,
                     ret |-> sumMetric(data, m, f)]
    /\ UNCHANGED <<splitVars, data>>

\* the properties avgClat, avgLat, iops, mibps
AvgClatCall ==
    /\ Idle
    /\ result' = [op |-> "avgClat", ret |-> avgClat(data)]
    /\ UNCHANGED <<splitVars, data>>

AvgLatCall ==
    /\ Idle
    /\ result' = [op |-> "avgLat", ret |-> avgLat(data)]
    /\ UNCHANGED <<splitVars, data>>

IopsCall ==
    /\ Idle
    /\ result' = [op |-> "iops", ret |-> iops(data)]
    /\ UNCHANGED <<splitVars, data>>

MibpsCall ==
    /\ Idle
    /\ result' = [op |-> "mibps", ret |-> mibps(data)]
    /\ UNCHANGED <<splitVars, data>>

MetricNext ==
    \/ TakeResult
    \/ AvgMetricCall
    \/ SumMetricCall
    \/ AvgClatCall
    \/ AvgLatCall
    \/ IopsCall
    \/ MibpsCall

SpecMetric == MetricInit /\ [][MetricNext]_vars


(***************************************************************************)
(* Properties of the aggregator                                            *)
(***************************************************************************)

TheJobs == MetricJobs(data)

\* job i is the aggregate entry: by its exact name, or whatever the case
Excluded(i, exact) ==
    IF exact THEN Get(TheJobs[i], "jobname").s = "all clients"
    ELSE StrLower(Get(TheJobs[i], "jobname").s) = "all clients"

\* the <<job, direction>> blocks a filter selects, outside the excluded jobs
Blocks(dirFilter, exact) ==
    {x \in (1..Len(TheJobs)) \X {"mixed", "read", "write", "trim"} :
        /\ Has(TheJobs[x[1]], x[2])
        /\ dirFilter = None \/ dirFilter = x[2]
        /\ ~Excluded(x[1], exact)}

BlockAt(x) == Get(TheJobs[x[1]], x[2])

\* what block x adds to a sum: its total_ios, its mean times its total_ios,
\* or the raw value of the metric
Term(x, kind, metric) ==
    IF kind = "ios" THEN Get(BlockAt(x), "total_ios")
    ELSE IF kind = "weighted"
    THEN NumMul(Get(Get(BlockAt(x), metric), "mean"), Get(BlockAt(x), "total_ios"))
    ELSE Get(BlockAt(x), metric)

RECURSIVE SumOver(_, _, _)
SumOver(S, kind, metric) ==
    IF S = {} THEN JInt(0)
    ELSE LET x == CHOOSE y \in S : TRUE
         IN  NumAdd(Term(x, kind, metric), SumOver(S \ {x}, kind, metric))

\* the call returned sum(mean * total_ios) / sum(total_ios) over the blocks
\* selected, or 0.0 when they did no IO
IsWeightedAverage(exact) ==
    LET S == Blocks(result.dirFilter, exact)
        ios == SumOver(S, "ios", result.metric)
        weighted == SumOver(S, "weighted", result.metric)
    IN  /\ result.ret.err = ""
        /\ result.ret.val.t = "float"
        /\ IF ios.n = 0 THEN result.ret.val.n = 0
           ELSE NumEq(NumMul(result.ret.val, ios), weighted)

TwoBlockJob == Job("job1", << <<"read", BlockA>>, <<"write", BlockB>> >>)

\* C4 (as amended): _avgMetric(metric, d) is sum(mean * total_ios) /
\* sum(total_ios) over the blocks matching d (all four directions when d is
\* None) of the jobs whose name, lower-cased, is not "all clients", and 0.0
\* when that sum of total_ios is 0; blocks (100, 10) and (200, 30) give 175.
C4_WeightedAverage ==
    result.op = "_avgMetric" =>
        /\ IsWeightedAverage(FALSE)
        /\ (TheJobs = <<TwoBlockJob>> /\ result.dirFilter = None
              /\ result.metric = "clat_ns")
           => NumEq(result.ret.val, JInt(175))

\* C4 as stated: the jobs left out are those named exactly "all clients"
C4_Original == result.op = "_avgMetric" => IsWeightedAverage(TRUE)

\* C4 witness: a filtered average over two jobs, one of them the aggregate
\* entry, that selected a block and left another direction's block out
C4_Witness ==
    /\ result.op = "_avgMetric"
    /\ result.dirFilter = "read"
    /\ Len(TheJobs) = 2
    /\ \E i \in 1..2 : Excluded(i, FALSE) /\ Has(TheJobs[i], "read")
    /\ \E i \in 1..2 : ~Excluded(i, FALSE) /\ Has(TheJobs[i], "read")
                        /\ Has(TheJobs[i], "trim")
    /\ NumEq(result.ret.val, JInt(200))

\* C5 (taking "named 'all clients'" whatever the case, as the code compares):
\* _sumMetric(metric, d) returns the sum of the metric's raw values over the
\* blocks matching d of the jobs not excluded.
C5_FilteredSum ==
    result.op = "_sumMetric" =>
        /\ result.ret.err = ""
        /\ NumEq(result.ret.val,
                 SumOver(Blocks(result.dirFilter, FALSE), "raw", result.metric))

\* every direction block of every job reports total_ios = 0 (which covers a
\* file without any block)
AllZeroIos ==
    \A i \in 1..Len(TheJobs) : \A dr \in {"mixed", "read", "write", "trim"} :
        Has(TheJobs[i], dr) => Get(Get(TheJobs[i], dr), "total_ios").n = 0

IsZero(ret) == ret.err = "" /\ ret.val.n = 0

PercentilesFn == "<self._getDirectionPercentiles>"

\* the tables of terseList: <<header name, path>> in their order
dTerse ==
    << <<"fio_version", "fio version">> >>

dJobs ==
    << <<"jobname", "jobname">>,
       <<"groupid", "groupid">>,
       <<"error", "error">> >>

dDirections ==
    << <<"_kb", "io_kbytes">>,
       <<"_bandwidth", "bw">>,
       <<"_iops", "iops">>,
       <<"_runtime_ms", "runtime">>,
       <<"_slat_min", "slat_ns/min">>,
       <<"_slat_max", "slat_ns/max">>,
       <<"_slat_mean", "slat_ns/mean">>,
       <<"_slat_dev", "slat_ns/stddev">>,
       <<"_clat_min", "clat_ns/min">>,
       <<"_clat_max", "clat_ns/max">>,
       <<"_clat_mean", "clat_ns/mean">>,
       <<"_clat_dev", "clat_ns/stddev">>,
       <<"_clat_pct", PercentilesFn>>,
       <<"_lat_min", "lat_ns/min">>,
       <<"_lat_max", "lat_ns/max">>,
       <<"_lat_mean", "lat_ns/mean">>,
       <<"_lat_dev", "lat_ns/stddev">>,
       <<"_bw_min", "bw_min">>,
       <<"_bw_max", "bw_max">>,
       <<"_bw_agg_pct", "bw_agg">>,
       <<"_bw_mean", "bw_mean">>,
       <<"_bw_dev", "bw_dev">> >>

dJobRest ==
    << <<"cpu_user", "usr_cpu">>,
       <<"cpu_sys", "sys_cpu">>,
       <<"cpu_csw", "ctx">>,
       <<"cpu_mjf", "majf">>,
       <<"cpu_minf", "minf">>,
       <<"iodepth_1", "iodepth_level/1">>,
       <<"iodepth_2", "iodepth_level/2">>,
       <<"iodepth_4", "iodepth_level/4">>,
       <<"iodepth_8", "iodepth_level/8">>,
       <<"iodepth_16", "iodepth_level/16">>,
       <<"iodepth_32", "iodepth_level/32">>,
       <<"iodepth_64", "iodepth_level/>=64">>,
       <<"lat_2us", "latency_us/2">>,
       <<"lat_4us", "latency_us/4">>,
       <<"lat_10us", "latency_us/10">>,
       <<"lat_20us", "latency_us/20">>,
       <<"lat_50us", "latency_us/50">>,
       <<"lat_100us", "latency_us/100">>,
       <<"lat_250us", "latency_us/250">>,
       <<"lat_500us", "latency_us/500">>,
       <<"lat_750us", "latency_us/750">>,
       <<"lat_1000us", "latency_us/1000">>,
       <<"lat_2ms", "latency_ms/2">>,
       <<"lat_4ms", "latency_ms/4">>,
       <<"lat_10ms", "latency_ms/10">>,
       <<"lat_20ms", "latency_ms/20">>,
       <<"lat_50ms", "latency_ms/50">>,
       <<"lat_100ms", "latency_ms/100">>,
       <<"lat_250ms", "latency_ms/250">>,
       <<"lat_500ms", "latency_ms/500">>,
       <<"lat_750ms", "latency_ms/750">>,
       <<"lat_1000ms", "latency_ms/1000">>,
       <<"lat_2000ms", "latency_ms/2000">>,
       <<"lat_over_2000ms", "latency_ms/>=2000">> >>

dDiskUtil ==
    << <<"disk_name", "name">>,
       <<"disk_read_iops", "read_ios">>,
       <<"disk_write_iops", "write_ios">>,
       <<"disk_read_merges", "read_merges">>,
       <<"disk_write_merges", "write_merges">>,
       <<"disk_read_ticks", "read_ticks">>,
       <<"write_ticks", "write_ticks">>,
       <<"disk_queue_time", "in_queue">>,
       <<"disk_util", "util">> >>

\* dOut[key] = v, for the outcome v of evaluating the right-hand side
PutOutcome(dOut, key, v) == IF v.err # "" THEN v ELSE Ok(Put(dOut, key, v.val))

\* for pct, val in dObj.items(): dOut[metricName + "_" + pct.rstrip('.0')] = val / 1000.0
\* (acc is the outcome so far: the dict, or the exception that ended the loop)
RECURSIVE PercentileLoop(_, _, _)
PercentileLoop(acc, metricName, items) ==
    IF items = <<>> \/ acc.err # "" THEN acc
    ELSE PercentileLoop(
            PutOutcome(acc.val, metricName \o "_" \o RStrip(Head(items)[1], ".0"),
                       DivThousand(Head(items)[2])),
            metricName, Tail(items))

getDirectionPercentiles(dOut, metricName, dObj) ==
    IF dObj.t = "obj" THEN PercentileLoop(Ok(dOut), metricName, dObj.items)
    ELSE Raise("AttributeError", "items")

\* path(dOut, metricName, dirObj['clat_ns']['percentile'])
CallPercentiles(dOut, metricName, clat) ==
    IF clat.err # "" THEN clat
    ELSE IF ~Has(clat.val, "percentile") THEN Raise("KeyError", "percentile")
    ELSE getDirectionPercentiles(dOut, metricName, Get(clat.val, "percentile"))

\* one entry of a table: dOut[prefix + hdr] = self._getObjValue(obj, path), or
\* the call of the percentile method
TableEntry(dOut, obj, prefix, entry) ==
    IF entry[2] = PercentilesFn
    THEN CallPercentiles(dOut, prefix \o entry[1], Subscript(obj, "clat_ns"))
    ELSE PutOutcome(dOut, prefix \o entry[1], getObjValue(obj, entry[2]))

\* for hdr, path in table.items(): ..., one table over one object
RECURSIVE TableLoop(_, _, _, _)
TableLoop(acc, obj, prefix, table) ==
    IF table = <<>> \/ acc.err # "" THEN acc
    ELSE TableLoop(TableEntry(acc.val, obj, prefix, Head(table)), obj, prefix,
                   Tail(table))

\* the directions collected with mixed ahead of read and write
TerseDirsMixedFirst == <<"mixed", "read", "write">>

\* the order in which terseList collects a job's directions into dAvailDirs
TerseDirs == <<"read", "write", "mixed">>

\* the loop over the directions, taking only those that did IO
RECURSIVE DirsLoopActiveOnly(_, _, _)
DirsLoopActiveOnly(acc, jobObj, dirs) ==
    IF dirs = <<>> \/ acc.err # "" THEN acc
    ELSE IF Has(jobObj, Head(dirs))
            /\ NumPos(Get(Get(jobObj, Head(dirs)), "total_ios"))
    THEN DirsLoopActiveOnly(
            TableLoop(acc, Get(jobObj, Head(dirs)), Head(dirs), dDirections),
            jobObj, Tail(dirs))
    ELSE DirsLoopActiveOnly(acc, jobObj, Tail(dirs))

\* for dirName, dirObj in dAvailDirs.items(): ...
RECURSIVE DirsLoop(_, _, _)
DirsLoop(acc, jobObj, dirs) ==
    IF dirs = <<>> \/ acc.err # "" THEN acc
    ELSE IF Has(jobObj, Head(dirs))
    THEN DirsLoop(TableLoop(acc, Get(jobObj, Head(dirs)), Head(dirs), dDirections),
                  jobObj, Tail(dirs))
    ELSE DirsLoop(acc, jobObj, Tail(dirs))

\* for diskObj in lDisks: ...
RECURSIVE DisksLoop(_, _)
DisksLoop(acc, lDisks) ==
    IF lDisks = <<>> \/ acc.err # "" THEN acc
    ELSE DisksLoop(TableLoop(acc, Head(lDisks), "", dDiskUtil), Tail(lDisks))

\* the body of the loop over lJobs: the record dOut of one job
TerseRecord(obj, jobObj, lDisks) ==
    DisksLoop(
        TableLoop(
            DirsLoop(
                TableLoop(
                    TableLoop(Ok(JObj(<< <<"terse_version", JStr("??")>> >>)),
                              obj, "", dTerse),
                    jobObj, "", dJobs),
                jobObj, TerseDirs),
            jobObj, "", dJobRest),
        lDisks)

\* outList.append(dOut), for the outcome r of building dOut
AppendOutcome(outList, r) == IF r.err # "" THEN r ELSE Ok(Append(outList, r.val))

RECURSIVE TerseJobsLoop(_, _, _, _)
TerseJobsLoop(acc, obj, lJobs, lDisks) ==
    IF lJobs = <<>> \/ acc.err # "" THEN acc
    ELSE TerseJobsLoop(AppendOutcome(acc.val, TerseRecord(obj, Head(lJobs), lDisks)),
                       obj, Tail(lJobs), lDisks)

\* lJobs = obj['jobs']; lDisks = obj['disk_util']; the loop
terseList(obj) ==
    IF ~Has(obj, "jobs") THEN Raise("KeyError", "jobs")
    ELSE IF ~Has(obj, "disk_util") THEN Raise("KeyError", "disk_util")
    ELSE TerseJobsLoop(Ok(<<>>), obj, Get(obj, "jobs").elems,
                       Get(obj, "disk_util").elems)

\* the text str(v) of a value, as far as it can hold a ';': a str is its own
\* text, the text of a number holds none
StrOf(v) == IF v.t = "str" THEN v.s ELSE "<" \o v.t \o ">"

\* terse() joining every value but the first.
terseLinesSkipFirst(records) ==
    IF records = <<>> THEN <<>>
    ELSE <<Keys(records[1])>>
         \o [i \in 1..Len(records) |->
                [k \in 1..(Len(records[i].items) - 1) |->
                    StrOf(Values(records[i])[k + 1])]]

\* the lines of the string terse() builds from the records, each line as
\* the sequence of texts that ';'.join() puts together: the keys of the
\* first record, then the values of every record
terseLines(records) ==
    IF records = <<>> THEN <<>>
    ELSE <<Keys(records[1])>>
         \o [i \in 1..Len(records) |->
                [k \in 1..Len(records[i].items) |-> StrOf(Values(records[i])[k])]]

\* terse() on the outcome r of self.terseList()
TerseOf(r) == IF r.err # "" THEN r ELSE Ok(terseLines(r.val))

terse(obj) == TerseOf(terseList(obj))


(***************************************************************************)
(* The terse renderer on a constructed instance                            *)
(***************************************************************************)

\* most entries in disk_util
MaxDisks == 2

AllDisks == <<Disk("sda"), Disk("sdb"), Disk("sdc"), Disk("sdd")>>

\* percentile label lists, as fio prints the labels (six decimals)
PctsA == <<"1.000000", "99.990000">>
PctsB == <<"1.000000", "10.000000">>
PctsC == <<"99.500000">>

TerseBlock(pcts) == [ios |-> 10, iops |-> 1000, mean |-> 100, pcts |-> pcts]
IdleBlock(pcts) == [ios |-> 0, iops |-> 0, mean |-> 0, pcts |-> pcts]

TerseShapes ==
    { <<>>,
      << <<"read", TerseBlock(PctsA)>> >>,
      << <<"read", TerseBlock(PctsA)>>, <<"write", TerseBlock(PctsA)>> >>,
      << <<"write", TerseBlock(PctsB)>> >>,
      << <<"read", TerseBlock(PctsC)>> >>,
      << <<"read", IdleBlock(PctsA)>>, <<"write", TerseBlock(PctsA)>> >>,
      << <<"mixed", TerseBlock(PctsA)>>, <<"read", TerseBlock(PctsA)>>,
         <<"write", TerseBlock(PctsA)>>, <<"trim", TerseBlock(PctsA)>>,
         <<"sync", TerseBlock(PctsA)>> >> }

TerseJobSet ==
    {Job("job1", sh) : sh \in TerseShapes}
    \cup {Job("a;b", << <<"read", TerseBlock(PctsA)>> >>)}

TerseInit ==
    /\ Constructed
    /\ \E k \in {"jobs", "client_stats"}, js \in SeqsUpTo(TerseJobSet, MaxJobs),
          n \in 0..MaxDisks :
          data = Tree(k, js, SubSeq(AllDisks, 1, n))

\* self.terseList()
TerseListCall ==
    /\ Idle
    /\ result' = [op |-> "terseList", ret |-> terseList(data)]
    /\ UNCHANGED <<splitVars, data>>

\* self.terse()
TerseCall ==
    /\ Idle
    /\ result' = [op |-> "terse", ret |-> terse(data)]
    /\ UNCHANGED <<splitVars, data>>

TerseNext == TakeResult \/ TerseListCall \/ TerseCall

SpecTerse == TerseInit /\ [][TerseNext]_vars


(***************************************************************************)
(* Properties of the terse renderer                                        *)
(***************************************************************************)

TerseJobs == Get(data, "jobs").elems

Returned(op) == result.op = op /\ result.ret.err = ""

StartsWith(str, pre) == Len(str) >= Len(pre) /\ SubSeq(str, 1, Len(pre)) = pre

\* a label without its trailing zeros and, after them, its trailing period
TrimLabel(label) ==
    LET z == RStrip(label, "0")
    IN  IF Len(z) > 0 /\ SubSeq(z, Len(z), Len(z)) = "."
        THEN SubSeq(z, 1, Len(z) - 1)
        ELSE z

PercentileOf(job, dr) == Get(Get(Get(job, dr), "clat_ns"), "percentile")

\* the keys of record rec that start with pre
KeysWith(rec, pre) ==
    {Keys(rec)[k] : k \in {n \in 1..Len(rec.items) : StartsWith(Keys(rec)[n], pre)}}

\* C8: in every job's record, each direction's percentile mapping of k labels
\* has put k fields, one per label, named <direction>_clat_pct_<label> with
\* the label's trailing zeros and trailing period removed, each holding that
\* label's value divided by 1000.
C8_PercentileExpansion ==
    Returned("terseList") =>
        \A i \in 1..Len(TerseJobs) : \A dr \in {"read", "write", "mixed"} :
            Has(TerseJobs[i], dr) =>
                LET pcts == PercentileOf(TerseJobs[i], dr)
                    rec == result.ret.val[i]
                    pre == dr \o "_clat_pct_"
                IN  /\ \A k \in 1..Len(pcts.items) :
                          /\ Has(rec, pre \o TrimLabel(pcts.items[k][1]))
                          /\ IsThousandth(Get(rec, pre \o TrimLabel(pcts.items[k][1])),
                                          pcts.items[k][2])
                    /\ Cardinality(KeysWith(rec, pre)) = Len(pcts.items)

\* the places of the ';' in a sequence of texts
Semicolons(texts) ==
    {x \in UNION {{<<k, n>> : n \in 1..Len(texts[k])} : k \in 1..Len(texts)} :
        SubSeq(texts[x[1]], x[2], x[2]) = ";"}

\* number of ';'-separated fields of the line that joins texts with ';'
FieldCount(texts) == Len(texts) + Cardinality(Semicolons(texts))

\* the header and every data line have as many fields, and every record
\* has the keys of the first, in the same order
SameFieldCounts ==
    /\ Returned("terse") =>
          \A i \in 1..Len(result.ret.val) :
              FieldCount(result.ret.val[i]) = FieldCount(result.ret.val[1])
    /\ Returned("terseList") =>
          \A i \in 1..Len(result.ret.val) :
              Keys(result.ret.val[i]) = Keys(result.ret.val[1])

\* the directions of a job that terseList renders, each with its percentile labels
TerseShapeOf(job) ==
    [dr \in {x \in {"read", "write", "mixed"} : Has(job, x)} |->
        Keys(PercentileOf(job, dr))]

\* every job has the directions and the percentile labels of the first
UniformJobs == \A i \in 1..Len(TerseJobs) :
    TerseShapeOf(TerseJobs[i]) = TerseShapeOf(TerseJobs[1])

\* no text that terseList copies into a record holds a ';'
NoSemicolonValues ==
    /\ ~Contains(Get(data, "fio version").s, ";")
    /\ \A i \in 1..Len(TerseJobs) : ~Contains(Get(TerseJobs[i], "jobname").s, ";")
    /\ \A i \in 1..Len(Get(data, "disk_util").elems) :
          ~Contains(Get(Get(data, "disk_util").elems[i], "name").s, ";")

Headers(table) == {table[k][1] : k \in 1..Len(table)}

\* the keys of record rec that belong to the block of direction dr: those
\* prefixed by the direction name, the disk field 'write_ticks' set aside
DirFields(rec, dr) == KeysWith(rec, dr \o "_") \ Headers(dDiskUtil)

AllDirs == {"mixed", "read", "write", "trim", "sync"}

\* the job has direction dr and it did IO
Active(job, dr) == Has(job, dr) /\ NumPos(Get(Get(job, dr), "total_ios"))

\* the record has every fixed field of the block of dr
FullBlock(rec, dr) ==
    \A k \in 1..Len(dDirections) :
        dDirections[k][2] # PercentilesFn => Has(rec, dr \o dDirections[k][1])

\* C13 as stated: a job's record has fields of a direction exactly when the
\* direction is one of mixed, read, write and is active on the job
C13_Original ==
    Returned("terseList") =>
        \A i \in 1..Len(TerseJobs) : \A dr \in AllDirs :
            (DirFields(result.ret.val[i], dr) # {})
                = (dr \in {"mixed", "read", "write"} /\ Active(TerseJobs[i], dr))

\* C13 (as amended): a job's record has the block of fields of a direction
\* exactly when the direction is one of mixed, read, write and is present on
\* the job, whatever its total_ios (a present direction with total_ios = 0
\* contributes its full block); trim and sync never contribute fields.
C13_DirectionGating ==
    Returned("terseList") =>
        \A i \in 1..Len(TerseJobs) : \A dr \in AllDirs :
            /\ (DirFields(result.ret.val[i], dr) # {})
                  = (dr \in {"mixed", "read", "write"} /\ Has(TerseJobs[i], dr))
            /\ (DirFields(result.ret.val[i], dr) # {})
                  => FullBlock(result.ret.val[i], dr)

\* C13 witness: terseList() has rendered a job whose read direction did no
\* IO, with the read block in its record, and a job with trim and sync
C13_Witness ==
    /\ Returned("terseList")
    /\ \E i \in 1..Len(TerseJobs) :
          /\ Has(TerseJobs[i], "read")
          /\ ~Active(TerseJobs[i], "read")
          /\ Has(result.ret.val[i], "read_iops")
    /\ \E i \in 1..Len(TerseJobs) :
          /\ Has(TerseJobs[i], "trim")
          /\ Has(TerseJobs[i], "sync")
          /\ DirFields(result.ret.val[i], "trim") = {}


VersionKeys == {"terse_version"} \cup Headers(dTerse)
IdentityKeys == Headers(dJobs)
JobWideKeys == Headers(dJobRest)
DiskKeys == Headers(dDiskUtil)

\* the group a key of a record belongs to: 1 versions, 2 job identity,
\* 3 direction blocks, 4 job-wide fields, 5 disk utilization
GroupOf(key) ==
    IF key \in VersionKeys THEN 1
    ELSE IF key \in IdentityKeys THEN 2
    ELSE IF key \in JobWideKeys THEN 4
    ELSE IF key \in DiskKeys THEN 5
    ELSE 3

\* the direction whose block a key of group 3 belongs to
DirOf(key) == CHOOSE dr \in {"read", "write", "mixed"} : StartsWith(key, dr \o "_")

\* key a comes no later than key b in the order of the groups and, inside
\* group 3, of the direction blocks ranked by rank
InOrder(a, b, rank) ==
    /\ GroupOf(a) <= GroupOf(b)
    /\ (GroupOf(a) = 3 /\ GroupOf(b) = 3) => rank[DirOf(a)] <= rank[DirOf(b)]

\* the keys of every record run through the five groups in order, and
\* through the direction blocks in the order given by rank: each key and
\* the next are in order
OrderedBy(rank) ==
    \A i \in 1..Len(result.ret.val) :
        \A k \in 1..(Len(result.ret.val[i].items) - 1) :
            InOrder(result.ret.val[i].items[k][1],
                    result.ret.val[i].items[k + 1][1], rank)

\* every key of every record outside groups 1, 2, 4, 5 carries the name of
\* a direction the job has
KnownKeys ==
    \A i \in 1..Len(result.ret.val) :
        \A k \in 1..Len(result.ret.val[i].items) :
            GroupOf(result.ret.val[i].items[k][1]) = 3 =>
                \E dr \in {"read", "write", "mixed"} :
                    /\ Has(TerseJobs[i], dr)
                    /\ StartsWith(result.ret.val[i].items[k][1], dr \o "_")

\* C14 as stated: the groups in order and the direction blocks in the order
\* mixed, read, write
C14_Original ==
    Returned("terseList") =>
        KnownKeys /\ OrderedBy([mixed |-> 1, read |-> 2, write |-> 3])

\* C14 (as amended): in each job's terse record the field groups appear in
\* the order versions (terse_version, then the tool version), job identity
\* (jobname, groupid, error), direction blocks, job-wide fields,
\* disk-utilization fields; and when a job has more than one of the
\* directions read, write, mixed, their blocks appear in the order read,
\* then write, then mixed.
C14_FieldOrder ==
    Returned("terseList") =>
        KnownKeys /\ OrderedBy([read |-> 1, write |-> 2, mixed |-> 3])

\* C14 witness: the record of a job with all three directions and a disk,
\* with fields of all five groups
C14_Witness ==
    /\ Returned("terseList")
    /\ Get(data, "disk_util").elems # <<>>
    /\ \E i \in 1..Len(TerseJobs) :
          /\ \A dr \in {"read", "write", "mixed"} :
                /\ Has(TerseJobs[i], dr)
                /\ DirFields(result.ret.val[i], dr) # {}
          /\ {GroupOf(Keys(result.ret.val[i])[k]) :
                k \in 1..Len(result.ret.val[i].items)} = 1..5


(***************************************************************************)
(* The normal renderer: normalized and the _normal* methods.               *)
(*                                                                         *)
(* A context c = [err, val, obj, out] is the renderer part-way: obj the    *)
(* dictionary being annotated (a job or a direction block), out the lines  *)
(* printed so far, err and val the exception that ended it, if any.  A     *)
(* printed line is the tuple of a tag and the values formatted into it.    *)
(***************************************************************************)

Ctx(obj, out) == [err |-> "", val |-> "", obj |-> obj, out |-> out]
Fail(c, kind, what) == [c EXCEPT !.err = kind, !.val = what]

\* the first key of keys that obj lacks
FirstMissing(obj, keys) ==
    keys[CHOOSE i \in 1..Len(keys) :
            /\ ~Has(obj, keys[i])
            /\ \A j \in 1..(i - 1) : Has(obj, keys[j])]

\* print(fmt.format_map(obj), file=out), fmt naming keys in that order
PrintKeys(c, obj, tag, keys) ==
    IF c.err # "" THEN c
    ELSE IF \E i \in 1..Len(keys) : ~Has(obj, keys[i])
    THEN Fail(c, "KeyError", FirstMissing(obj, keys))
    ELSE [c EXCEPT !.out = Append(c.out,
                <<tag>> \o [i \in 1..Len(keys) |-> Get(obj, keys[i])])]

\* print(line, file=out)
PrintLine(c, line) ==
    IF c.err # "" THEN c ELSE [c EXCEPT !.out = Append(c.out, line)]

\* the body of the loop of _normalXLat for one scale
XLatScale(c, metric, scale) ==
    IF c.err # "" THEN c
    ELSE LET key == metric \o "_" \o scale
             d1 == Put(Put(c.obj, "metric", JStr(metric)), "scale", JStr(scale))
         IN  IF ~Has(d1, key) THEN [c EXCEPT !.obj = d1]
             ELSE IF Get(d1, key).t # "obj"
             THEN Fail([c EXCEPT !.obj = d1], "TypeError", key)
             ELSE PrintKeys(
                    [c EXCEPT !.obj =
                        Put(d1, key,
                            Put(Put(Get(d1, key), "metric", JStr(metric)),
                                "scale", JStr(scale)))],
                    Put(Put(Get(d1, key), "metric", JStr(metric)),
                        "scale", JStr(scale)),
                    "xlat", <<"metric", "scale", "min", "max", "mean", "stddev">>)

\* _normalXLat: for scale in ['ns', 'us', 'ms', 's']
normalXLat(c, metric) ==
    XLatScale(XLatScale(XLatScale(XLatScale(c, metric, "ns"), metric, "us"),
                        metric, "ms"),
              metric, "s")

\* yield l[idx:idx+n] for idx in range(0, len(l), n)
genChunks(l, n) ==
    [k \in 1..((Len(l) + n - 1) \div n) |->
        SubSeq(l, (k - 1) * n + 1, IF k * n < Len(l) THEN k * n ELSE Len(l))]

\* the lines of the one string _normalCLatPercents prints after its heading:
\* one per chunk of 3, or an empty line when there is no percentile
RECURSIVE PrintChunks(_, _)
PrintChunks(c, chunks) ==
    IF chunks = <<>> \/ c.err # "" THEN c
    ELSE PrintChunks(PrintLine(c, <<"pct">> \o Head(chunks)), Tail(chunks))

normalCLatPercents(c) ==
    IF c.err # "" THEN c
    ELSE IF ~Has(c.obj, "clat_ns") THEN Fail(c, "KeyError", "clat_ns")
    ELSE IF ~Has(Get(c.obj, "clat_ns"), "percentile")
    THEN Fail(c, "KeyError", "percentile")
    ELSE LET dPcts == Get(Get(c.obj, "clat_ns"), "percentile")
         IN  IF dPcts.items = <<>>
             THEN PrintLine(PrintLine(c, <<"clat percentiles">>), <<"">>)
             ELSE PrintChunks(PrintLine(c, <<"clat percentiles">>),
                              genChunks(dPcts.items, 3))

normalBw(c) ==
    PrintKeys(c, c.obj, "bw",
              <<"bw_min", "bw_max", "bw_agg", "bw_mean", "bw_dev", "bw_samples">>)

normalIops(c) ==
    PrintKeys(c, c.obj, "iops",
              <<"iops_min", "iops_max", "iops_mean", "iops_stddev", "iops_samples">>)

\* _normalDirection keeping the converted bandwidth in bw_bytes itself
AnnotateDirectionInPlace(c, direction) ==
    IF c.err # "" THEN c
    ELSE IF ~Has(c.obj, "bw_bytes")
    THEN Fail([c EXCEPT !.obj = Put(c.obj, "direction", JStr(direction))],
              "KeyError", "bw_bytes")
    ELSE [c EXCEPT !.obj =
            Put(Put(Put(c.obj, "direction", JStr(direction)),
                    "bw_bytes", NumDiv(Get(c.obj, "bw_bytes"), JInt(1000))),
                "bwKB", NumDiv(Get(c.obj, "bw_bytes"), JInt(1000)))]

\* the two assignments that open _normalDirection
AnnotateDirection(c, direction) ==
    IF c.err # "" THEN c
    ELSE IF ~Has(c.obj, "bw_bytes")
    THEN Fail([c EXCEPT !.obj = Put(c.obj, "direction", JStr(direction))],
              "KeyError", "bw_bytes")
    ELSE [c EXCEPT !.obj =
            Put(Put(c.obj, "direction", JStr(direction)),
                "bwKB", NumDiv(Get(c.obj, "bw_bytes"), JInt(1000)))]

\* the first print of _normalDirection, on the annotated block
PrintDirection(c) ==
    PrintKeys(c, c.obj, "direction",
              <<"direction", "iops", "bw", "bwKB", "io_kbytes", "runtime">>)

\* _normalDirection(out, direction, dDir), c.obj being dDir
normalDirection(c, direction) ==
    normalIops(normalBw(normalCLatPercents(
        normalXLat(normalXLat(normalXLat(
            PrintDirection(AnnotateDirection(c, direction)),
            "slat"), "clat"), "lat"))))

\* lDirs and the index each direction adds to: mixed and read share index 0
lDirs == <<"mixed", "read", "write", "trim", "sync">>

\* lDirs.index(direction), then "if idx > 0: idx -= 1", counted from 1
IssuedIndex(direction) ==
    LET idx == (CHOOSE i \in 1..Len(lDirs) : lDirs[i] = direction) - 1
    IN  (IF idx > 0 THEN idx - 1 ELSE idx) + 1

\* a job context carries the three accumulators besides
JobCtx(job, out) ==
    [err |-> "", val |-> "", obj |-> job, out |-> out,
     totals |-> <<0, 0, 0, 0>>, shorts |-> <<0, 0, 0, 0>>,
     dropped |-> <<0, 0, 0, 0>>]

\* the job context after _normalDirection left the direction context dc
AfterDirection(c, direction, dc) ==
    LET job == Put(c.obj, direction, dc.obj)
        idx == IssuedIndex(direction)
    IN  IF dc.err # ""
        THEN [c EXCEPT !.obj = job, !.out = dc.out, !.err = dc.err, !.val = dc.val]
        ELSE IF ~Has(dc.obj, "short_ios")
        THEN Fail([c EXCEPT !.obj = job, !.out = dc.out,
                            !.totals[idx] = @ + Get(dc.obj, "total_ios").n],
                  "KeyError", "short_ios")
        ELSE IF ~Has(dc.obj, "drop_ios")
        THEN Fail([c EXCEPT !.obj = job, !.out = dc.out,
                            !.totals[idx] = @ + Get(dc.obj, "total_ios").n,
                            !.shorts[idx] = @ + Get(dc.obj, "short_ios").n],
                  "KeyError", "drop_ios")
        ELSE [c EXCEPT !.obj = job, !.out = dc.out,
                       !.totals[idx] = @ + Get(dc.obj, "total_ios").n,
                       !.shorts[idx] = @ + Get(dc.obj, "short_ios").n,
                       !.dropped[idx] = @ + Get(dc.obj, "drop_ios").n]

\* the body of the loop taking every direction the job has
JobDirectionPresent(c, direction) ==
    IF c.err # "" THEN c
    ELSE IF ~Has(c.obj, direction) THEN c
    ELSE IF ~Has(Get(c.obj, direction), "total_ios")
    THEN Fail(c, "KeyError", "total_ios")
    ELSE AfterDirection(c, direction,
            normalDirection(Ctx(Get(c.obj, direction), c.out), direction))

\* the body of "for direction in lDirs"
JobDirection(c, direction) ==
    IF c.err # "" THEN c
    ELSE IF ~Has(c.obj, direction) THEN c
    ELSE IF ~Has(Get(c.obj, direction), "total_ios")
    THEN Fail(c, "KeyError", "total_ios")
    ELSE IF ~NumPos(Get(Get(c.obj, direction), "total_ios")) THEN c
    ELSE AfterDirection(c, direction,
            normalDirection(Ctx(Get(c.obj, direction), c.out), direction))

RECURSIVE JobDirections(_, _)
JobDirections(c, dirs) ==
    IF dirs = <<>> \/ c.err # "" THEN c
    ELSE JobDirections(JobDirection(c, Head(dirs)), Tail(dirs))

\* the buckets of a latency_<scale> object whose share is above 0.0
PositiveBuckets(dBkts) == SelectSeq(dBkts.items, LAMBDA it : NumPos(it[2]))

\* the body of the loop of _normalLatBuckets for one scale
LatBucketScale(c, scale) ==
    IF c.err # "" THEN c
    ELSE IF ~Has(c.obj, "latency_" \o scale) THEN c
    ELSE IF PositiveBuckets(Get(c.obj, "latency_" \o scale)) = <<>> THEN c
    ELSE PrintLine(c, <<"lat buckets", scale>>
                      \o PositiveBuckets(Get(c.obj, "latency_" \o scale)))

normalLatBuckets(c) ==
    LatBucketScale(LatBucketScale(LatBucketScale(LatBucketScale(c, "ns"), "us"),
                                  "ms"), "s")

normalCpu(c) ==
    PrintKeys(c, c.obj, "cpu", <<"usr_cpu", "sys_cpu", "ctx", "majf", "minf">>)

normalIODepths(c) ==
    IF c.err # "" THEN c
    ELSE IF ~Has(c.obj, "iodepth_level") THEN Fail(c, "KeyError", "iodepth_level")
    ELSE PrintLine(c, <<"IO depths">> \o Get(c.obj, "iodepth_level").items)

normalIssued(c) ==
    IF c.err # "" THEN c
    ELSE PrintLine(c, <<"issued rwts", c.totals, c.shorts, c.dropped>>)

normalLatency(c) ==
    PrintKeys(c, c.obj, "latency",
              <<"latency_target", "latency_window", "latency_percentile",
                "latency_depth">>)

\* the optional description line
PrintDesc(c) ==
    IF c.err # "" THEN c
    ELSE IF Has(c.obj, "desc") THEN PrintKeys(c, c.obj, "desc", <<"desc">>)
    ELSE c

\* the two assignments and the first print of _normalJobStats
JobHeader(c, d) ==
    IF ~Has(d, "time") THEN Fail(c, "KeyError", "time")
    ELSE PrintKeys(
            [c EXCEPT !.obj = Put(Put(c.obj, "time", Get(d, "time")),
                                  "numjobs", JStr("??"))],
            Put(Put(c.obj, "time", Get(d, "time")), "numjobs", JStr("??")),
            "job", <<"jobname", "groupid", "numjobs", "error", "time">>)

\* _normalJobStats(out, dJob), on self.data = d
normalJobStats(d, dJob, out) ==
    normalLatency(normalIssued(normalIODepths(normalCpu(normalLatBuckets(
        JobDirections(PrintDesc(JobHeader(JobCtx(dJob, out), d)), lDirs))))))

\* _normalRunStatus and _normalDiskStats are "pass": they print nothing
normalRunStatus(out, lJobs) == out
normalDiskStats(out, lDisks) == out

\* print("<{}>".format(dJob['hostname'])), in client/server mode only
PrintHostname(c, clients) ==
    IF clients THEN PrintKeys(c, c.obj, "hostname", <<"hostname">>) ELSE c

\* the loop context after the body ran on one job and left the job context c
AfterJob(acc, c) ==
    [err |-> c.err, val |-> c.val, jobs |-> Append(acc.jobs, c.obj), out |-> c.out]

\* "for dJob in self.data[key]": acc.jobs are the entries the loop is done
\* with, as it left them; an exception leaves the entries after it untouched
RECURSIVE NormalJobsLoop(_, _, _, _)
NormalJobsLoop(acc, d, todo, clients) ==
    IF acc.err # "" THEN [acc EXCEPT !.jobs = acc.jobs \o todo]
    ELSE IF todo = <<>> THEN acc
    ELSE NormalJobsLoop(
            AfterJob(acc, PrintHostname(normalJobStats(d, Head(todo), acc.out),
                                        clients)),
            d, Tail(todo), clients)

\* what follows the loop: the two calls that print nothing, the second on
\* self.data['disk_util'], and the return of the text
NormalEnd(d, key, acc) ==
    [data |-> Put(d, key, JList(acc.jobs)),
     ret  |-> IF acc.err # "" THEN Raise(acc.err, acc.val)
              ELSE IF ~Has(d, "disk_util") THEN Raise("KeyError", "disk_util")
              ELSE Ok(normalDiskStats(normalRunStatus(acc.out, acc.jobs),
                                      Get(d, "disk_util")))]

MissingJobsMessage ==
    "Missing 'jobs' or 'client_stats' key in json results for file '"
        \o fpath \o "'"

\* the branch of normalized on the job list filed under key
NormalBranch(d, key, clients) ==
    NormalEnd(d, key,
        NormalJobsLoop([err |-> "", val |-> "", jobs |-> <<>>,
                        out |-> << <<"version", Get(d, "fio version")>>, <<"">> >>],
                       d, Get(d, key).elems, clients))

\* self.normalized() on self.data = d: the tree it leaves and what it
\* returns (the lines of the text) or raises
normalized(d) ==
    IF ~Has(d, "fio version")
    THEN [data |-> d, ret |-> Raise("KeyError", "fio version")]
    ELSE IF Has(d, "jobs") THEN NormalBranch(d, "jobs", FALSE)
    ELSE IF Has(d, "client_stats") THEN NormalBranch(d, "client_stats", TRUE)
    ELSE [data |-> d, ret |-> Raise("RuntimeError", MissingJobsMessage)]


(***************************************************************************)
(* The normal renderer on a constructed instance                           *)
(***************************************************************************)

\* a job entry as a client reports it
WithHost(job) == Put(job, "hostname", JStr("host1"))

\* a job entry with a description
WithDesc(job) == Put(job, "desc", JStr("seq read"))

NormalShapes ==
    { <<>>,
      << <<"read", TerseBlock(PctsA)>> >>,
      << <<"read", TerseBlock(PctsA)>>, <<"write", BlockB>> >>,
      << <<"read", IdleBlock(PctsA)>>, <<"write", TerseBlock(PctsC)>> >> }

NormalJobSet ==
    {Job("job1", sh) : sh \in NormalShapes}
    \cup {WithDesc(Job("job2", << <<"trim", TerseBlock(PctsA)>> >>))}

\* the top-level keys a file may or may not have
OptionalKeys == {"fio version", "time", "jobs", "client_stats", "disk_util"}

\* a tree with every top-level key: the jobs, and the same as clients report them
FullTree(jobs, disks) ==
    JObj(<< <<"fio version", JStr("fio-3.5")>>,
            <<"timestamp", JInt(1526325132)>>,
            <<"time", JStr("Mon May 14 14:12:12 2018")>>,
            <<"jobs", JList(jobs)>>,
            <<"client_stats", JList([i \in 1..Len(jobs) |-> WithHost(jobs[i])])>>,
            <<"disk_util", JList(disks)>> >>)

\* the object d without its keys in gone
Without(d, gone) == JObj(SelectSeq(d.items, LAMBDA it : it[1] \notin gone))

NormalInit ==
    /\ Constructed
    /\ \E js \in SeqsUpTo(NormalJobSet, MaxJobs), gone \in SUBSET OptionalKeys :
          data = Without(FullTree(js, <<Disk("sda")>>), gone)

\* self.normalized()
NormalizedCall ==
    /\ Idle
    /\ data' = normalized(data).data
    /\ result' = [op |-> "normalized", ret |-> normalized(data).ret]
    /\ UNCHANGED splitVars

NormalNext == TakeResult \/ NormalizedCall

SpecNormal == NormalInit /\ [][NormalNext]_vars


(***************************************************************************)
(* Properties of the normal renderer                                       *)
(***************************************************************************)

NoJobList == ~Has(data, "jobs") /\ ~Has(data, "client_stats")

\* C10: when the top-level object has neither 'jobs' nor 'client_stats',
\* whatever other keys it has or lacks, normalized raises the RuntimeError
\* whose message names the file
C10_MissingJobsError ==
    (result.op = "normalized" /\ NoJobList)
        => (result.ret.err = "RuntimeError" /\ result.ret.val = MissingJobsMessage)


(***************************************************************************)
(* Every renderer and metric on one constructed instance                   *)
(***************************************************************************)

RepeatShapes ==
    { << <<"read", TerseBlock(PctsA)>> >>,
      << <<"read", TerseBlock(PctsA)>>, <<"write", BlockB>> >>,
      << <<"read", IdleBlock(PctsA)>>, <<"write", TerseBlock(PctsC)>> >> }

RepeatJobSet == {Job("job1", sh) : sh \in RepeatShapes}

\* a file in standalone mode, or in client/server mode (no 'jobs'), with or
\* without 'disk_util'
RepeatInit ==
    /\ Constructed
    /\ \E js \in SeqsUpTo(RepeatJobSet, MaxJobs),
          gone \in SUBSET {"jobs", "disk_util"} :
          data = Without(FullTree(js, <<Disk("sda")>>), gone)

RepeatNext ==
    \/ TakeResult
    \/ TerseCall
    \/ NormalizedCall
    \/ AvgClatCall
    \/ AvgLatCall
    \/ IopsCall
    \/ MibpsCall

SpecRepeat == RepeatInit /\ [][RepeatNext]_vars

\* what each operation returns (or raises) on an instance whose tree is d
Answers(d) ==
    [terse |-> terse(d), normalized |-> normalized(d).ret,
     avgClat |-> avgClat(d), avgLat |-> avgLat(d),
     iops |-> iops(d), mibps |-> mibps(d)]

\* the tree holds a field that normalized injected
Annotated(d) ==
    \E k \in {"jobs", "client_stats"} :
        /\ Has(d, k)
        /\ \E i \in 1..Len(Get(d, k).elems) : Has(Get(d, k).elems[i], "numjobs")

\* a call returns what the operation answers on the tree before the call
AnswersCall ==
    /\ result'.op = "terse" => result'.ret = Answers(data).terse
    /\ result'.op = "normalized" => result'.ret = Answers(data).normalized
    /\ result'.op = "avgClat" => result'.ret = Answers(data).avgClat
    /\ result'.op = "avgLat" => result'.ret = Answers(data).avgLat
    /\ result'.op = "iops" => result'.ret = Answers(data).iops
    /\ result'.op = "mibps" => result'.ret = Answers(data).mibps

\* C11: every step of an instance, a call to terse(), normalized() or a
\* scalar metric, returns what the operation answers on the tree it finds and
\* leaves unchanged what every one of these operations answers; so after any
\* sequence of calls each returns what it returns on a freshly constructed
\* instance, normalized() twice returns the same text, and the fields it
\* injects never change the output of terse() or of the metrics.
C11_Repeatable == [][AnswersCall /\ Answers(data') = Answers(data)]_vars

\* C11 witness: terse() has returned on a tree that normalized() annotated
C11_Witness ==
    /\ Returned("terse")
    /\ Annotated(data)
    /\ Has(Get(data, "jobs").elems[1], "write")
    /\ Has(Get(Get(data, "jobs").elems[1], "write"), "bwKB")


(***************************************************************************)
(* The issued line of the normal renderer                                  *)
(***************************************************************************)

\* a direction block with its three counters
CountBlock(ios, short, drop) ==
    Put(Put(DirBlock([ios |-> ios, iops |-> 100, mean |-> 10, pcts |-> PctsC]),
            "short_ios", JInt(short)),
        "drop_ios", JInt(drop))

\* a job with the given direction blocks, in file order
CountJob(name, dirs) ==
    JObj(Job(name, <<>>).items \o dirs)

IssuedJobSet ==
    { CountJob("job1", <<>>),
      CountJob("job1", << <<"read", CountBlock(10, 3, 1)>>,
                          <<"mixed", CountBlock(7, 1, 2)>> >>),
      CountJob("job1", << <<"read", CountBlock(0, 9, 9)>>,
                          <<"write", CountBlock(30, 2, 5)>> >>),
      CountJob("job1", << <<"mixed", CountBlock(0, 9, 9)>>,
                          <<"trim", CountBlock(4, 1, 1)>> >>),
      CountJob("job1", << <<"sync", CountBlock(2, 0, 1)>>,
                          <<"trim", CountBlock(4, 1, 1)>>,
                          <<"write", CountBlock(30, 2, 5)>>,
                          <<"read", CountBlock(10, 3, 1)>> >>),
      CountJob("job1", << <<"read", CountBlock(10, 3, 1)>>,
                          <<"write", CountBlock(30, 2, 5)>>,
                          <<"mixed", CountBlock(7, 1, 2)>>,
                          <<"trim", CountBlock(4, 1, 1)>>,
                          <<"sync", CountBlock(2, 0, 1)>> >>) }

IssuedInit ==
    /\ Constructed
    /\ \E js \in SeqsUpTo(IssuedJobSet, MaxJobs) :
          data = Tree("jobs", js, <<Disk("sda")>>)

IssuedNext == TakeResult \/ NormalizedCall

SpecIssued == IssuedInit /\ [][IssuedNext]_vars

\* the place in the text out of the header line of the i-th job
JobStart(out, i) ==
    CHOOSE k \in 1..Len(out) :
        /\ out[k][1] = "job"
        /\ Cardinality({j \in 1..k : out[j][1] = "job"}) = i

\* the lines of the i-th job of n: from its header line to the next one
JobLines(out, i, n) ==
    SubSeq(out, JobStart(out, i),
           IF i < n THEN JobStart(out, i + 1) - 1 ELSE Len(out))

\* the lines among ls with the given tag
Tagged(ls, tag) == SelectSeq(ls, LAMBDA l : l[1] = tag)

\* the names on the direction lines among ls, in order
SectionNames(ls) ==
    [k \in 1..Len(Tagged(ls, "direction")) |-> Tagged(ls, "direction")[k][2].s]

\* counter field of direction dr of job, 0 when dr is absent or did no IO
ActiveCount(job, dr, field) ==
    IF Active(job, dr) THEN Get(Get(job, dr), field).n ELSE 0

\* the four slots for one counter: mixed and read together, write, trim, sync
Slots(job, field) ==
    << ActiveCount(job, "mixed", field) + ActiveCount(job, "read", field),
       ActiveCount(job, "write", field),
       ActiveCount(job, "trim", field),
       ActiveCount(job, "sync", field) >>

\* C15: in the text normalized() returns, every job's direction sections are
\* those of its directions present with total_ios > 0, in the order mixed,
\* read, write, trim, sync; and its one issued line prints, for total, short
\* and dropped, four slots: slot 0 the sum of the active mixed and read
\* counts, slot 1 write, slot 2 trim, slot 3 sync, an inactive or absent
\* direction counting 0.
C15_IssuedTotals ==
    Returned("normalized") =>
        \A i \in 1..Len(TerseJobs) :
            LET job == TerseJobs[i]
                ls == JobLines(result.ret.val, i, Len(TerseJobs))
            IN  /\ SectionNames(ls)
                      = SelectSeq(<<"mixed", "read", "write", "trim", "sync">>,
                                  LAMBDA dr : Active(job, dr))
                /\ Tagged(ls, "issued rwts")
                      = << <<"issued rwts", Slots(job, "total_ios"),
                             Slots(job, "short_ios"), Slots(job, "drop_ios")>> >>

\* C15 witness: normalized() has rendered a job whose mixed and read
\* directions both did IO and a job with a direction that did none
C15_Witness ==
    /\ Returned("normalized")
    /\ \E i \in 1..Len(TerseJobs) :
          Active(TerseJobs[i], "mixed") /\ Active(TerseJobs[i], "read")
    /\ \E i \in 1..Len(TerseJobs) : \E dr \in AllDirs :
          /\ Has(TerseJobs[i], dr)
          /\ ~Active(TerseJobs[i], dr)
          /\ Get(Get(TerseJobs[i], dr), "short_ios").n > 0

=============================================================================
